---- MODULE Spec2Model ----
(***************************************************************************)
(* The NewsAPI client (getTopHeadlines, searchEverything, doFetch) and the *)
(* two views that call it (TopHeadlinesView, SearchView) as a state        *)
(* machine.  Every call is a record in `calls`; the network, the 15 s      *)
(* timer and the callers' AbortControllers are the environment.            *)
(*                                                                         *)
(* JavaScript values are tagged records ([t |-> "string", v |-> ...]);     *)
(* strings are sequences of tokens (characters for the query text, words   *)
(* for messages, URL pieces for the base URL), so that trim, toLowerCase,  *)
(* includes and the regular-expression tests are computed, not assumed.    *)
(***************************************************************************)
EXTENDS Integers, Sequences, FiniteSets, TLC

\* ------------------------------------------------------------------ bounds

\* calls made over a run (by the views and by other callers together)
MaxCalls == 3

\* ------------------------------------------------------------- JS values

Undef == [t |-> "undefined"]
Null == [t |-> "null"]
Str(s) == [t |-> "string", v |-> s]
Num(n) == [t |-> "number", v |-> n]
NaN == [t |-> "NaN"]
Arr(s) == [t |-> "array", v |-> s]
Obj == [t |-> "object"]

\* JavaScript truthiness: undefined, null, '', 0 and NaN are falsy
Truthy(x) ==
  CASE x.t = "string" -> x.v # <<>>
    [] x.t = "number" -> x.v # 0
    [] x.t \in {"undefined", "null", "NaN"} -> FALSE
    [] OTHER -> TRUE

\* a || b
Or(a, b) == IF Truthy(a) THEN a ELSE b

DigitChars == <<"0", "1", "2", "3", "4", "5", "6", "7", "8", "9">>

\* the decimal digits of a natural number, most significant first
RECURSIVE Digits(_)
Digits(n) ==
  IF n < 10
    THEN <<DigitChars[n + 1]>>
    ELSE Append(Digits(n \div 10), DigitChars[(n % 10) + 1])

\* String(value) of a number or a string
ToStr(x) ==
  CASE x.t = "number" ->
         IF x.v < 0 THEN <<"-">> \o Digits(0 - x.v) ELSE Digits(x.v)
    [] x.t = "string" -> x.v
    [] OTHER -> <<x.t>>

\* Number(value): a number stays, the empty string is 0, other text is NaN
ToNumber(x) ==
  CASE x.t = "number" -> x
    [] x.t = "string" -> IF x.v = <<>> THEN Num(0) ELSE NaN
    [] x.t = "null" -> Num(0)
    [] OTHER -> NaN

Max(a, b) == IF a >= b THEN a ELSE b
Min(a, b) == IF a <= b THEN a ELSE b

\* String.prototype.trim on a sequence of characters
RECURSIVE TrimLeft(_)
TrimLeft(s) ==
  IF s # <<>> /\ Head(s) = " " THEN TrimLeft(Tail(s)) ELSE s

RECURSIVE TrimRight(_)
TrimRight(s) ==
  IF s # <<>> /\ s[Len(s)] = " "
    THEN TrimRight(SubSeq(s, 1, Len(s) - 1))
    ELSE s

Trim(s) == TrimLeft(TrimRight(s))

\* toLowerCase of one token; the table covers the tokens the model uses
LowerToken(w) ==
  CASE w = "Failed to fetch" -> "failed to fetch"
    [] w = "NetworkError" -> "networkerror"
    [] w = "Load failed" -> "load failed"
    [] w = "CORS" -> "cors"
    [] w = "HTTPS://" -> "https://"
    [] w = "NewsAPI.org" -> "newsapi.org"
    [] OTHER -> w

Lower(s) == [i \in DOMAIN s |-> LowerToken(s[i])]

\* s.includes(w) for a token w
Includes(s, w) == \E i \in DOMAIN s : s[i] = w

\* --------------------------------------------------------- configuration

DEFAULT_BASE == <<"https://", "newsapi.org", "/v2">>

\* s.replace(/\/*$/, ''): the trailing "/" tokens are dropped
RECURSIVE stripTrailingSlashes(_)
stripTrailingSlashes(s) ==
  IF s # <<>> /\ s[Len(s)] = "/"
    THEN stripTrailingSlashes(SubSeq(s, 1, Len(s) - 1))
    ELSE s

\* !/newsapi\.org/i.test(base)
isProxyBase(base) == ~Includes(Lower(base), "newsapi.org")

\* /^https?:\/\//i.test(base)
HasScheme(base) ==
  base # <<>> /\ Lower(base)[1] \in {"http://", "https://"}

\* the environment: REACT_APP_NEWS_API_BASE and REACT_APP_NEWS_API_KEY,
\* <<>> when unset
getNewsApiConfig(env) ==
  [base |-> stripTrailingSlashes(
              IF env.base # <<>> THEN env.base ELSE DEFAULT_BASE),
   apiKey |-> IF env.key # <<>> THEN Str(env.key) ELSE Undef]

\* ------------------------------------------------------------ the client

\* buildQuery: undefined, null and '' are dropped, the rest is stringified
buildQuery(params) ==
  [k \in {j \in DOMAIN params : params[j] \notin {Undef, Null, Str(<<>>)}}
     |-> ToStr(params[k])]

\* an Error object; status 0 and details Undef stand for an absent field
Err(name, message, code, status, details) ==
  [name |-> name, message |-> message, code |-> code, status |-> status,
   details |-> details, isError |-> TRUE]

RateLimitMsg == <<"Rate limit reached. Please wait a minute before trying again.">>
UnavailableMsg == <<"News service is currently unavailable. Please try again later.">>
UnauthorizedMsg == <<"Unauthorized: Please ensure a valid NewsAPI key is configured (direct mode) or proxy is authorized.">>
GenericMsg == <<"Unexpected error contacting news service.">>
BadBaseMsg == <<"Invalid NewsAPI base URL. Ensure REACT_APP_NEWS_API_BASE starts with http(s)://">>
MissingKeyMsg == <<"NewsAPI key is missing. Set REACT_APP_NEWS_API_KEY in your environment or use the proxy.">>
ValidationMsg == <<"Please enter a search term.">>
UnexpectedMsg == <<"Unexpected error occurred.">>
NullReadMsg == <<"Cannot read properties of null (reading 'totalResults')">>

\* payload?.field: undefined unless the parsed body is an object
Field(payload, f) ==
  IF payload.t = "payload" THEN payload[f] ELSE Undef

\* mapApiError with payload.error taking precedence over payload.message
mapApiErrorErrorFirst(status, payload) ==
  IF status = 429
    THEN RateLimitMsg
    ELSE LET message == Or(Field(payload, "error"),
                          Or(Field(payload, "message"), Str(GenericMsg)))
         IN  IF status >= 500
               THEN UnavailableMsg
               ELSE IF status = 401 \/ status = 403
                      THEN UnauthorizedMsg
                      ELSE message.v

mapApiError(status, payload) ==
  IF status = 429
    THEN RateLimitMsg
    ELSE LET message == Or(Field(payload, "message"),
                          Or(Field(payload, "error"), Str(GenericMsg)))
         IN  IF status >= 500
               THEN UnavailableMsg
               ELSE IF status = 401 \/ status = 403
                      THEN UnauthorizedMsg
                      ELSE message.v

\* the direct-only client's mapApiError: the same precedence, another
\* text for 401 and 403
mapApiErrorDirectOnly(status, payload) ==
  IF mapApiError(status, payload) = UnauthorizedMsg
    THEN <<"Unauthorized: Please ensure a valid NewsAPI key is configured.">>
    ELSE mapApiError(status, payload)

\* isNetworkOrCORSError without toLowerCase()
isNetworkOrCORSErrorCaseSensitive(err) ==
  LET msg == err.message
  IN  /\ err.name = "TypeError"
      /\ \/ Includes(msg, "failed to fetch")
         \/ Includes(msg, "networkerror")
         \/ Includes(msg, "load failed")
         \/ Includes(msg, "cors")

isNetworkOrCORSError(err) ==
  LET msg == Lower(err.message)
  IN  /\ err.name = "TypeError"
      /\ \/ Includes(msg, "failed to fetch")
         \/ Includes(msg, "networkerror")
         \/ Includes(msg, "load failed")
         \/ Includes(msg, "cors")

\* the NETWORK message names the mode
NetworkMsg(mode) ==
  <<"Network/CORS error: Unable to reach the news service (", mode,
    "). If using a proxy, ensure REACT_APP_NEWS_API_BASE points to it and that the proxy is running. Otherwise verify CORS/network access and try again.">>

toUserFacingError(err, url, mode) ==
  IF isNetworkOrCORSError(err)
    THEN Err("Error", NetworkMsg(mode), "NETWORK", 0, Obj)
    ELSE IF err.isError
           THEN err
           ELSE Err("Error", UnexpectedMsg, "none", 0, Undef)

\* the direct-only client's NETWORK message has no mode in it
toUserFacingErrorDirectOnly(err, url) ==
  IF isNetworkOrCORSError(err)
    THEN Err("Error",
             <<"Network/CORS error: Unable to reach the news service. This can occur if your browser blocked the request or the service is unavailable.">>,
             "NETWORK", 0, Obj)
    ELSE IF err.isError
           THEN err
           ELSE Err("Error", UnexpectedMsg, "none", 0, Undef)

\* Math.min(Math.max(1, Number(pageSize) || 10), 100); the parameter's
\* default of 10 replaces undefined
safePageSize(pageSize) ==
  LET given == IF pageSize = Undef THEN Num(10) ELSE pageSize
      n == Or(ToNumber(given), Num(10))
  IN  Min(Max(1, n.v), 100)

\* Math.max(1, Number(page) || 1)
safePage(page) ==
  LET given == IF page = Undef THEN Num(1) ELSE page
      n == Or(ToNumber(given), Num(1))
  IN  Max(1, n.v)

allowedSort == {"relevancy", "popularity", "publishedAt"}

\* the sortBy handed on without the allow-list
safeSortUnchecked(sortBy) ==
  LET given == IF sortBy = Undef THEN Str(<<"publishedAt">>) ELSE sortBy
  IN  IF given.t = "string" THEN given.v ELSE <<"publishedAt">>

\* allowedSort.has(sortBy) ? sortBy : 'publishedAt', after the default
safeSort(sortBy) ==
  LET given == IF sortBy = Undef THEN Str(<<"publishedAt">>) ELSE sortBy
  IN  IF given.t = "string" /\ Len(given.v) = 1 /\ given.v[1] \in allowedSort
        THEN given.v
        ELSE <<"publishedAt">>

\* the query text without trim(): blanks count as a search term
QueryTextNoTrim(q) == ToStr(Or(q, Str(<<>>)))

\* String(q || '').trim()
QueryText(q) == Trim(ToStr(Or(q, Str(<<>>))))

\* the params object getTopHeadlines hands to doFetch
TopParams(f) ==
  LET base == [country |-> IF f.country = Undef THEN Str(<<"us">>) ELSE f.country,
               pageSize |-> Num(safePageSize(f.pageSize)),
               page |-> Num(safePage(f.page))]
  IN  IF Truthy(f.category)
        THEN [k \in DOMAIN base \cup {"category"} |->
                IF k = "category" THEN f.category ELSE base[k]]
        ELSE base

\* the params object searchEverything hands to doFetch
SearchParams(f) ==
  [q |-> Str(QueryText(f.q)),
   sortBy |-> Str(safeSort(f.sortBy)),
   language |-> IF f.language = Undef THEN Str(<<"en">>) ELSE f.language,
   pageSize |-> Num(safePageSize(f.pageSize)),
   page |-> Num(safePage(f.page))]

\* ------------------------------------------------------------------ state

VARIABLES
  env,     \* REACT_APP_NEWS_API_BASE and REACT_APP_NEWS_API_KEY (read-only)
  build,   \* the revision of services/newsApi.js that is bundled:
           \* "proxy-aware" or the earlier "direct-only"
  calls,   \* every call of getTopHeadlines / searchEverything made so far
  tab,     \* App: 'headlines' | 'search'
  top,     \* TopHeadlinesView: its useState values and its effect
  search   \* SearchView: its useState values

vars == <<env, build, calls, tab, top, search>>

NoReq == [t |-> "none"]
NoErr == [t |-> "none"]
Pending == [state |-> "pending"]
Resolved(v) == [state |-> "resolved", value |-> v]
Rejected(e) == [state |-> "rejected", error |-> e]

Mode(base) == IF isProxyBase(base) THEN "proxy" ELSE "direct"

AbortError ==
  [name |-> "AbortError", message |-> <<"The user aborted a request.">>,
   code |-> "none", status |-> 0, details |-> Undef, isError |-> TRUE]

\* the key check with the mode inverted (proxy && !apiKey)
MissingKeyInProxyOnly(proxy, apiKey) == proxy /\ ~Truthy(apiKey)

\* !proxy && !apiKey: only direct mode requires the key
MissingKey(proxy, apiKey) == ~proxy /\ ~Truthy(apiKey)

\* the path with the two modes swapped
pathSwapped(endpoint, proxy) ==
  IF endpoint = "search"
    THEN (IF proxy THEN "everything" ELSE "search")
    ELSE endpoint

\* the path doFetch requests: 'search' maps by mode, 'top-headlines'
\* passes through
path(endpoint, proxy) ==
  IF endpoint = "search"
    THEN (IF proxy THEN "search" ELSE "everything")
    ELSE endpoint

\* the headers with the key attached whenever one is configured
headersWithAnyKey(proxy, apiKey) ==
  IF Truthy(apiKey) THEN {<<"X-Api-Key", apiKey>>} ELSE {}

\* the headers option of fetch: none in proxy mode, the key in direct mode
headers(proxy, apiKey) ==
  IF proxy THEN {} ELSE {<<"X-Api-Key", apiKey>>}

\* doFetch up to its first await: the configuration checks, the URL, the
\* controller, the timer, linkSignal and the call of fetch.  `ext` is the
\* caller's signal: "none", "live" or "aborted".
doFetch(b, e, endpoint, params, ext) ==
  LET cfg == getNewsApiConfig(e)
      proxy == IF b = "proxy-aware" THEN isProxyBase(cfg.base) ELSE FALSE
      badBase == ~HasScheme(cfg.base)
      noKey == MissingKey(proxy, cfg.apiKey)
      configError ==
        IF b = "proxy-aware"
          THEN IF badBase THEN BadBaseMsg
               ELSE IF noKey THEN MissingKeyMsg ELSE <<>>
          ELSE IF noKey THEN MissingKeyMsg
               ELSE IF badBase THEN BadBaseMsg ELSE <<>>
      aborted == ext = "aborted"
  IN  IF configError # <<>>
        THEN [pc |-> "settled", mode |-> Mode(cfg.base), req |-> NoReq,
              sent |-> 0, timer |-> "none", ctrlAborted |-> FALSE,
              linked |-> FALSE, status |-> 0, data |-> Undef,
              transport |-> NoErr,
              outcome |-> Rejected(Err("Error", configError, "CONFIG", 0, Undef))]
        ELSE [pc |-> "fetch", mode |-> Mode(cfg.base),
              req |-> [t |-> "request", base |-> cfg.base,
                       path |-> path(endpoint, proxy),
                       query |-> buildQuery(params),
                       headers |-> headers(proxy, cfg.apiKey)],
              sent |-> IF aborted THEN 0 ELSE 1,
              timer |-> "pending", ctrlAborted |-> aborted,
              linked |-> (ext = "live"), status |-> 0, data |-> Undef,
              transport |-> NoErr,
              outcome |-> Pending]

ValidationFailure ==
  [pc |-> "settled", mode |-> "none", req |-> NoReq, sent |-> 0,
   timer |-> "none", ctrlAborted |-> FALSE, linked |-> FALSE, status |-> 0,
   data |-> Undef, transport |-> NoErr,
   outcome |-> Rejected(Err("Error", ValidationMsg, "VALIDATION", 0, Undef))]

\* getTopHeadlines up to its await of doFetch
getTopHeadlines(b, e, f, ext) ==
  doFetch(b, e, "top-headlines", TopParams(f), ext)

\* searchEverything up to its await of doFetch; the direct-only client
\* names the upstream path itself
searchEverything(b, e, f, ext) ==
  IF QueryText(f.q) = <<>>
    THEN ValidationFailure
    ELSE doFetch(b, e, IF b = "proxy-aware" THEN "search" ELSE "everything",
                 SearchParams(f), ext)

\* a new entry of `calls`
NewCall(owner, op, f, ext) ==
  LET started == IF op = "top-headlines"
                   THEN getTopHeadlines(build, env, f, ext)
                   ELSE searchEverything(build, env, f, ext)
  IN  [k \in DOMAIN started \cup
             {"owner", "attached", "op", "filters", "ext", "abortPhase"} |->
        CASE k = "owner" -> owner
          [] k = "attached" -> TRUE
          [] k = "op" -> op
          [] k = "filters" -> f
          [] k = "ext" -> ext
          [] k = "abortPhase" -> IF ext = "aborted" THEN "before" ELSE "never"
          [] OTHER -> started[k]]

\* ------------------------------------------------- the rest of a call

\* res.ok
Ok(status) == status >= 200 /\ status <= 299

\* the value getTopHeadlines / searchEverything return once doFetch has
\* returned `data` (proxy-aware client: data?.totalResults, data?.articles)
QueryResult(data) ==
  [totalResults |-> Or(Field(data, "totalResults"), Num(0)),
   articles |-> IF Field(data, "articles").t = "array"
                  THEN Field(data, "articles").v
                  ELSE <<>>]

\* the same in the direct-only client (data.totalResults, data.articles):
\* reading a property of null throws a TypeError
QueryResultDirectOnly(data) ==
  IF data = Null
    THEN Rejected(Err("TypeError", NullReadMsg, "none", 0, Undef))
    ELSE Resolved(QueryResult(data))

\* doFetch from the parsed body on, then the caller's normalisation
Settle(b, status, data) ==
  IF ~Ok(status) \/ Field(data, "status") = Str(<<"error">>)
    THEN Rejected(Err("Error",
                      IF b = "proxy-aware"
                        THEN mapApiError(status, data)
                        ELSE mapApiErrorDirectOnly(status, data),
                      "none", status, data))
    ELSE IF b = "proxy-aware"
           THEN Resolved(QueryResult(data))
           ELSE QueryResultDirectOnly(data)

\* the catch block around fetch: clearTimeout, then throw toUserFacingError
FetchCatch(b, call, err) ==
  Rejected(IF b = "proxy-aware"
             THEN toUserFacingError(err, call.req, call.mode)
             ELSE toUserFacingErrorDirectOnly(err, call.req))

\* controller.abort() of the call's own controller
AbortController(call) == [call EXCEPT !.ctrlAborted = TRUE]

\* abort() of the caller's controller: the signal's state, and the 'abort'
\* listener linkSignal registered, if any
AbortCaller(call) ==
  IF call.ext # "live"
    THEN call
    ELSE LET marked == [call EXCEPT !.ext = "aborted",
                                    !.abortPhase = call.pc]
         IN  IF call.linked THEN AbortController(marked) ELSE marked

\* the 15 s timer fires: () => controller.abort()
TimerFires(c) ==
  /\ calls[c].timer = "pending"
  /\ ~calls[c].ctrlAborted
  /\ calls' = [calls EXCEPT ![c] = [AbortController(@) EXCEPT !.timer = "fired"]]
  /\ UNCHANGED <<env, build, tab, top, search>>

\* the response headers arrive: fetch resolves, clearTimeout, res.json() starts
FetchResponds(c, status) ==
  /\ calls[c].pc = "fetch"
  /\ calls[c].sent = 1
  /\ ~calls[c].ctrlAborted
  /\ calls' = [calls EXCEPT ![c] = [@ EXCEPT !.pc = "json",
                                             !.status = status,
                                             !.timer = "cleared"]]
  /\ UNCHANGED <<env, build, tab, top, search>>

\* the catch block retrying the request once instead of throwing
FetchFailsThenRetries(c, err) ==
  /\ calls[c].pc = "fetch"
  /\ calls[c].sent = 1
  /\ ~calls[c].ctrlAborted
  /\ calls' = [calls EXCEPT ![c] = [@ EXCEPT !.sent = 2, !.transport = err]]
  /\ UNCHANGED <<env, build, tab, top, search>>

\* the transport fails: fetch rejects with err
FetchFails(c, err) ==
  /\ calls[c].pc = "fetch"
  /\ calls[c].sent = 1
  /\ ~calls[c].ctrlAborted
  /\ calls' = [calls EXCEPT ![c] =
                 [@ EXCEPT !.pc = "settled",
                           !.timer = "cleared",
                           !.transport = err,
                           !.outcome = FetchCatch(build, calls[c], err)]]
  /\ UNCHANGED <<env, build, tab, top, search>>

\* the catch block without its clearTimeout
FetchAbortedKeepsTimer(c) ==
  /\ calls[c].pc = "fetch"
  /\ calls[c].ctrlAborted
  /\ calls' = [calls EXCEPT ![c] =
                 [@ EXCEPT !.pc = "settled",
                           !.transport = AbortError,
                           !.outcome = FetchCatch(build, calls[c], AbortError)]]
  /\ UNCHANGED <<env, build, tab, top, search>>

\* the controller's signal is aborted while fetch is pending (or was
\* already aborted when fetch was called): fetch rejects with an AbortError
FetchAborted(c) ==
  /\ calls[c].pc = "fetch"
  /\ calls[c].ctrlAborted
  /\ calls' = [calls EXCEPT ![c] =
                 [@ EXCEPT !.pc = "settled",
                           !.timer = IF @ = "pending" THEN "cleared" ELSE @,
                           !.transport = AbortError,
                           !.outcome = FetchCatch(build, calls[c], AbortError)]]
  /\ UNCHANGED <<env, build, tab, top, search>>

\* the body arrives and res.json() settles: `data` is the parsed payload,
\* or null when the body is no JSON
BodyRead(c, data) ==
  /\ calls[c].pc = "json"
  /\ ~calls[c].ctrlAborted
  /\ calls' = [calls EXCEPT ![c] =
                 [@ EXCEPT !.pc = "settled",
                           !.data = data,
                           !.outcome = Settle(build, calls[c].status, data)]]
  /\ UNCHANGED <<env, build, tab, top, search>>

\* the signal is aborted while the body is read: res.json() rejects, the
\* bare catch sets data = null
BodyAborted(c) ==
  /\ calls[c].pc = "json"
  /\ calls[c].ctrlAborted
  /\ calls' = [calls EXCEPT ![c] =
                 [@ EXCEPT !.pc = "settled",
                           !.data = Null,
                           !.outcome = Settle(build, calls[c].status, Null)]]
  /\ UNCHANGED <<env, build, tab, top, search>>

\* a caller other than the views calls the client
ApiCall(op, f, ext) ==
  /\ calls = <<>>
  /\ calls' = Append(calls, NewCall("api", op, f, ext))
  /\ UNCHANGED <<env, build, tab, top, search>>

\* that caller aborts the signal it passed
ApiAbort(c) ==
  /\ calls[c].owner = "api"
  /\ calls[c].ext = "live"
  /\ calls' = [calls EXCEPT ![c] = AbortCaller(@)]
  /\ UNCHANGED <<env, build, tab, top, search>>

\* -------------------------------------------------------------- the views

\* the options of the two selects the model uses (a subset of the lists)
countries == {"us", "gb"}
categories == {"", "business"}

NetworkHint == "If you're using a proxy, ensure REACT_APP_NEWS_API_BASE points to it and that the proxy is running. Otherwise verify CORS/network access and try again."
ConfigHint == "For direct NewsAPI usage, set REACT_APP_NEWS_API_KEY. To avoid CORS, set REACT_APP_NEWS_API_BASE to your proxy (e.g., http://localhost:3010/api/news)."
NoResultsMsg == <<"No results found for your query.">>

\* the message both views show for a rejected call
Enriched(e, fallback) ==
  LET msg == IF e.message # <<>> THEN e.message ELSE fallback
  IN  CASE e.code = "NETWORK" -> Append(msg, NetworkHint)
        [] e.code = "CONFIG" -> Append(msg, ConfigHint)
        [] OTHER -> msg

\* TopHeadlinesView before its first effect: the useState initial values
TopMounted ==
  [mounted |-> TRUE, country |-> "us", category |-> "", loading |-> FALSE,
   error |-> <<>>, articles |-> <<>>, ctrl |-> 0]

TopUnmounted ==
  [mounted |-> FALSE, country |-> "us", category |-> "", loading |-> FALSE,
   error |-> <<>>, articles |-> <<>>, ctrl |-> 0]

SearchMounted ==
  [mounted |-> TRUE, loading |-> FALSE, error |-> <<>>, articles |-> <<>>]

SearchUnmounted ==
  [mounted |-> FALSE, loading |-> FALSE, error |-> <<>>, articles |-> <<>>]

\* the calls of an unmounted component can no longer set its state
Detach(cs, owner) ==
  [i \in DOMAIN cs |->
     IF cs[i].owner = owner THEN [cs[i] EXCEPT !.attached = FALSE] ELSE cs[i]]

\* the effect's cleanup: controller.abort() of the effect's own controller
Cleanup(cs, ctrl) ==
  IF ctrl = 0 THEN cs ELSE [cs EXCEPT ![ctrl] = AbortCaller(@)]

\* useMemo: the filters the effect passes to getTopHeadlines
fetchParams(v) ==
  [country |-> Str(<<v.country>>),
   category |-> IF v.category # "" THEN Str(<<v.category>>) ELSE Undef,
   pageSize |-> Num(12),
   page |-> Num(1)]

\* the effect body for the view state v (new controller, setLoading(true),
\* setError(''), getTopHeadlines) appended to the calls cs: <<calls, view>>
TopEffect(b, e, cs, v) ==
  LET started == getTopHeadlines(b, e, fetchParams(v), "live")
      call == [k \in DOMAIN started \cup
                     {"owner", "attached", "op", "filters", "ext", "abortPhase"} |->
                CASE k = "owner" -> "top"
                  [] k = "attached" -> TRUE
                  [] k = "op" -> "top-headlines"
                  [] k = "filters" -> fetchParams(v)
                  [] k = "ext" -> "live"
                  [] k = "abortPhase" -> "never"
                  [] OTHER -> started[k]]
  IN  <<Append(cs, call),
        [v EXCEPT !.loading = TRUE, !.error = <<>>, !.ctrl = Len(cs) + 1]>>

\* a change of the filters re-renders; the previous effect's cleanup runs,
\* then the effect
Rerender(v) ==
  /\ Len(calls) < MaxCalls
  /\ LET r == TopEffect(build, env, Cleanup(calls, top.ctrl), v)
     IN  /\ calls' = r[1]
         /\ top' = r[2]
  /\ UNCHANGED <<env, build, tab, search>>

\* onChange of the Country select
SetCountry(c) ==
  /\ top.mounted
  /\ c # top.country
  /\ Rerender([top EXCEPT !.country = c])

\* onChange of the Category select
SetCategory(g) ==
  /\ top.mounted
  /\ g # top.category
  /\ Rerender([top EXCEPT !.category = g])

\* .then(res => setArticles(res.articles)) or .catch(e => ...) of the effect
TopThenCatch(c) ==
  /\ calls[c].owner = "top"
  /\ calls[c].pc = "settled"
  /\ calls' = [calls EXCEPT ![c].pc = "finally"]
  /\ top' =
       IF ~calls[c].attached
         THEN top
         ELSE IF calls[c].outcome.state = "resolved"
                THEN [top EXCEPT !.articles = calls[c].outcome.value.articles]
                ELSE [top EXCEPT
                        !.error = Enriched(calls[c].outcome.error,
                                           <<"Failed to load top headlines.">>),
                        !.articles = <<>>]
  /\ UNCHANGED <<env, build, tab, search>>

\* .finally(() => setLoading(false))
TopFinally(c) ==
  /\ calls[c].owner = "top"
  /\ calls[c].pc = "finally"
  /\ calls' = [calls EXCEPT ![c].pc = "done"]
  /\ top' = IF calls[c].attached THEN [top EXCEPT !.loading = FALSE] ELSE top
  /\ UNCHANGED <<env, build, tab, search>>

\* NewsSearch.handleSubmit -> SearchView.handleSearch up to its await
Submit(q, sortBy) ==
  /\ tab = "search"
  /\ search.mounted
  /\ Len(calls) < MaxCalls
  /\ calls' = Append(calls,
                     NewCall("search", "search",
                             [q |-> Str(q), sortBy |-> Str(<<sortBy>>),
                              language |-> Str(<<"en">>), pageSize |-> Undef,
                              page |-> Num(1)],
                             "live"))
  /\ search' = [search EXCEPT !.loading = TRUE, !.error = <<>>]
  /\ UNCHANGED <<env, build, tab, top>>

\* handleSearch after its await: the try body or the catch, then finally
SearchSettled(c) ==
  /\ calls[c].owner = "search"
  /\ calls[c].pc = "settled"
  /\ calls' = [calls EXCEPT ![c].pc = "done"]
  /\ search' =
       IF ~calls[c].attached
         THEN search
         ELSE IF calls[c].outcome.state = "resolved"
                THEN [search EXCEPT
                        !.articles = calls[c].outcome.value.articles,
                        !.error = IF calls[c].outcome.value.articles = <<>>
                                    THEN NoResultsMsg ELSE @,
                        !.loading = FALSE]
                ELSE [search EXCEPT
                        !.articles = <<>>,
                        !.error = Enriched(calls[c].outcome.error,
                                           <<"Failed to search news.">>),
                        !.loading = FALSE]
  /\ UNCHANGED <<env, build, tab, top>>

\* App: the tab buttons; the view of the other tab unmounts (the effect's
\* cleanup runs) and the view of the new tab mounts with fresh state
SetTab(t) ==
  /\ t # tab
  /\ tab' = t
  /\ IF t = "search"
       THEN /\ calls' = Detach(Cleanup(calls, top.ctrl), "top")
            /\ top' = TopUnmounted
            /\ search' = SearchMounted
       ELSE /\ Len(calls) < MaxCalls
            /\ LET r == TopEffect(build, env, Detach(calls, "search"), TopMounted)
               IN  /\ calls' = r[1]
                   /\ top' = r[2]
            /\ search' = SearchUnmounted
  /\ UNCHANGED <<env, build>>

\* ------------------------------------------------------- the environment

\* values of REACT_APP_NEWS_API_BASE: unset (the default, direct), a proxy
\* with a trailing slash, the upstream host in upper case, and two bases
\* without a scheme
Bases ==
  { <<>>,
    <<"http://", "localhost:3010", "/api/news", "/">>,
    <<"HTTPS://", "NewsAPI.org", "/v2">>,
    <<"newsapi.org", "/v2">>,
    <<"localhost:3010", "/api/news">> }

\* values of REACT_APP_NEWS_API_KEY: unset, or a key
Keys == { <<>>, <<"SECRET-KEY">> }

Envs == [base : Bases, key : Keys]

\* the environments of the application runs: the default base with a key,
\* a proxy without one, and the default base without a key
AppEnvs ==
  { [base |-> <<>>, key |-> <<"SECRET-KEY">>],
    [base |-> <<"http://", "localhost:3010", "/api/news", "/">>, key |-> <<>>],
    [base |-> <<>>, key |-> <<>>] }

\* HTTP statuses a server answers with
Statuses == {200, 400, 401, 403, 404, 429, 500, 503}
AppStatuses == {200, 500}

Payload(status, totalResults, articles, message, error) ==
  [t |-> "payload", status |-> status, totalResults |-> totalResults,
   articles |-> articles, message |-> message, error |-> error]

OkPayload(articles) ==
  Payload(Str(<<"ok">>), Num(Len(articles)), Arr(articles), Undef, Undef)

\* what a server that saw the request's headers may quote in its message
KeyEcho(req) ==
  IF req.t = "request"
    THEN { Str(<<"Your API key is invalid:">> \o h[2].v) :
             h \in {x \in req.headers : x[1] = "X-Api-Key"} }
    ELSE {}

\* parsed bodies: well-formed results, results without (or with a
\* non-sequence) articles, error payloads, a JSON string, and null for a
\* body that is no JSON
Bodies(req) ==
  { OkPayload(<<"a1", "a2">>),
    OkPayload(<<>>),
    Payload(Str(<<"ok">>), Undef, Undef, Undef, Undef),
    Payload(Str(<<"ok">>), Num(1), Obj, Undef, Undef),
    Payload(Str(<<"error">>), Undef, Undef, Str(<<"bad request">>), Str(<<"oops">>)),
    Payload(Str(<<"error">>), Undef, Undef, Undef, Str(<<"oops">>)),
    Payload(Str(<<"error">>), Undef, Undef, Str(<<>>), Undef),
    Str(<<"plain text">>),
    Null }
  \cup { Payload(Str(<<"error">>), Undef, Undef, m, Undef) : m \in KeyEcho(req) }

\* the server of the application runs answers a request with one article
\* that names the request's query
AppBodies(req) ==
  IF req.t = "request" THEN { OkPayload(<<req.query>>) } ELSE {}

JsError(name, message) ==
  [name |-> name, message |-> message, code |-> "none", status |-> 0,
   details |-> Undef, isError |-> TRUE]

\* what fetch may reject with: the browsers' network failures, a TypeError
\* of another kind, an Error that is no TypeError, and a thrown non-Error
TransportErrors ==
  { JsError("TypeError", <<"Failed to fetch">>),
    JsError("TypeError", <<"NetworkError", "when attempting to fetch resource.">>),
    JsError("TypeError", <<"Load failed">>),
    JsError("TypeError", <<"blocked by", "CORS", "policy">>),
    JsError("TypeError", <<"Invalid URL">>),
    JsError("Error", <<"Failed to fetch">>),
    [name |-> "none", message |-> <<>>, code |-> "none", status |-> 0,
     details |-> Undef, isError |-> FALSE] }

AppTransportErrors == { JsError("TypeError", <<"Failed to fetch">>) }

\* filters of getTopHeadlines: one field varied at a time
PageSizes ==
  { Undef, Num(0 - 7), Num(0 - 1), Num(0), Num(1), Num(2), Num(12), Num(99),
    Num(100), Num(101), Num(500), Str(<<"x">>), Null }

TopDefaults ==
  [country |-> Undef, category |-> Undef, pageSize |-> Undef, page |-> Undef]

TopFilters ==
  { [TopDefaults EXCEPT !.pageSize = n] : n \in PageSizes }
  \cup { [TopDefaults EXCEPT !.page = n] : n \in {Num(0), Num(3)} }
  \cup { [TopDefaults EXCEPT !.category = g] :
           g \in {Str(<<>>), Str(<<"business">>)} }
  \cup { [TopDefaults EXCEPT !.country = Str(<<"gb">>)] }

\* filters of searchEverything: one field varied at a time
Queries ==
  { Undef, Null, Str(<<>>), Str(<<" ">>), Str(<<" ", " ">>),
    Str(<<"a">>), Str(<<" ", "a", " ">>), Str(<<"a", " ", "b">>) }

Sorts ==
  { Undef, Str(<<"relevancy">>), Str(<<"popularity">>), Str(<<"publishedAt">>),
    Str(<<"bogus">>), Str(<<>>), Null }

SearchDefaults ==
  [q |-> Str(<<"a">>), sortBy |-> Undef, language |-> Undef,
   pageSize |-> Undef, page |-> Undef]

SearchFilters ==
  { [SearchDefaults EXCEPT !.q = q] : q \in Queries }
  \cup { [SearchDefaults EXCEPT !.sortBy = x] : x \in Sorts }
  \cup { [SearchDefaults EXCEPT !.pageSize = n] : n \in PageSizes }
  \cup { [SearchDefaults EXCEPT !.q = Str(<<>>), !.pageSize = Num(500)] }

Signals == {"none", "live", "aborted"}

\* ------------------------------------------------------- specifications

\* the application: App with its two views on the proxy-aware client
Init ==
  /\ env \in AppEnvs
  /\ build = "proxy-aware"
  /\ tab = "headlines"
  /\ calls = TopEffect("proxy-aware", env, <<>>, TopMounted)[1]
  /\ top = TopEffect("proxy-aware", env, <<>>, TopMounted)[2]
  /\ search = SearchUnmounted

Next ==
  \/ \E c \in countries : SetCountry(c)
  \/ \E g \in categories : SetCategory(g)
  \/ \E q \in {<<>>, <<"a">>}, x \in {"relevancy"} : Submit(q, x)
  \/ \E t \in {"headlines", "search"} : SetTab(t)
  \/ \E c \in DOMAIN calls :
       \/ TimerFires(c)
       \/ \E st \in AppStatuses : FetchResponds(c, st)
       \/ \E err \in AppTransportErrors : FetchFails(c, err)
       \/ FetchAborted(c)
       \/ \E data \in AppBodies(calls[c].req) : BodyRead(c, data)
       \/ BodyAborted(c)
       \/ TopThenCatch(c)
       \/ TopFinally(c)
       \/ SearchSettled(c)

Spec == Init /\ [][Next]_vars

\* the client alone: one call by any caller, any filters, any server
ClientInit(b) ==
  /\ env \in Envs
  /\ build = b
  /\ calls = <<>>
  /\ tab = "headlines"
  /\ top = TopUnmounted
  /\ search = SearchUnmounted

ClientNext ==
  \/ \E f \in TopFilters, ext \in Signals : ApiCall("top-headlines", f, ext)
  \/ \E f \in SearchFilters, ext \in Signals : ApiCall("search", f, ext)
  \/ \E c \in DOMAIN calls :
       \/ ApiAbort(c)
       \/ TimerFires(c)
       \/ \E st \in Statuses : FetchResponds(c, st)
       \/ \E err \in TransportErrors : FetchFails(c, err)
       \/ FetchAborted(c)
       \/ \E data \in Bodies(calls[c].req) : BodyRead(c, data)
       \/ BodyAborted(c)

ClientSpec == ClientInit("proxy-aware") /\ [][ClientNext]_vars

DirectOnlyClientSpec == ClientInit("direct-only") /\ [][ClientNext]_vars

\* the event loop runs a due timer callback and the continuation of a
\* settled promise; nothing obliges the server to answer or the caller to
\* abort
FairClientSpec ==
  /\ ClientSpec
  /\ WF_vars(\E c \in DOMAIN calls : TimerFires(c))
  /\ WF_vars(\E c \in DOMAIN calls : FetchAborted(c))
  /\ WF_vars(\E c \in DOMAIN calls : BodyAborted(c))

\* ----------------------------------------------------------------- claims

Settled(c) == calls[c].outcome.state # "pending"
IsRejected(c) == calls[c].outcome.state = "rejected"
IsResolved(c) == calls[c].outcome.state = "resolved"

\* C1: a call whose signal is aborted after the call started and before it
\* settled (while fetch is pending, or while the body is read) never
\* resolves with a QueryResult.
C1_AbortedCallNeverResolves ==
  \A c \in DOMAIN calls :
    calls[c].abortPhase \in {"fetch", "json"} => ~IsResolved(c)

\* C2: in TopHeadlinesView a call whose signal was aborted while fetch was
\* pending rejects, and no step of that call changes loading, error or
\* articles.
C2_AbortedCallLeavesViewAlone ==
  [][\A c \in DOMAIN calls :
       ( /\ calls[c].owner = "top"
         /\ calls[c].abortPhase = "fetch"
         /\ calls'[c].pc # calls[c].pc )
       => /\ top'.loading = top.loading
          /\ top'.error = top.error
          /\ top'.articles = top.articles
          /\ (Settled(c) => IsRejected(c))]_vars

\* C3: every call that passed validation and the configuration checks
\* eventually settles (Success or Failed), whatever the server does and
\* without the caller aborting.
C3_EveryCallSettles ==
  (Len(calls) >= 1) ~> (Len(calls) >= 1 /\ Settled(1))

\* query text that is absent, empty or only whitespace
BlankQuery(q) ==
  \/ q \in {Undef, Null}
  \/ q.t = "string" /\ \A i \in DOMAIN q.v : q.v[i] = " "

\* C4: a searchEverything call whose query text is absent, empty or only
\* whitespace rejects with code VALIDATION and issues no HTTP request,
\* whatever the configuration and the state of the signal.
C4_BlankSearchRejectsWithValidation ==
  \A c \in DOMAIN calls :
    (calls[c].op = "search" /\ BlankQuery(calls[c].filters.q))
    => /\ IsRejected(c)
       /\ calls[c].outcome.error.code = "VALIDATION"
       /\ calls[c].sent = 0
       /\ calls[c].req = NoReq

\* a whitespace-only search with an aborted signal, no key and a base
\* without a scheme has been made
C4_Witness ==
  \E c \in DOMAIN calls :
    /\ calls[c].op = "search"
    /\ calls[c].filters.q = Str(<<" ", " ">>)
    /\ calls[c].ext = "aborted"
    /\ env = [base |-> <<"newsapi.org", "/v2">>, key |-> <<>>]
    /\ calls[c].outcome.error.code = "VALIDATION"

\* the mode of the spec: direct iff the base names the upstream host
DirectMode ==
  Includes(Lower(IF env.base # <<>> THEN env.base ELSE DEFAULT_BASE),
           "newsapi.org")

DirectNoKey == DirectMode /\ env.key = <<>>

\* C5 as stated: in direct mode without an API key every call rejects with
\* code CONFIG and no HTTP request is issued.
C5_DirectNoKeyAlwaysConfig ==
  DirectNoKey =>
    \A c \in DOMAIN calls :
      /\ IsRejected(c)
      /\ calls[c].outcome.error.code = "CONFIG"
      /\ calls[c].sent = 0

\* C5 amended: in direct mode without an API key every getTopHeadlines
\* call, and every searchEverything call whose query text is not blank,
\* rejects with code CONFIG; a searchEverything call with a blank query
\* rejects with code VALIDATION; no HTTP request is issued in either case.
C5_DirectNoKeyConfigAfterValidation ==
  DirectNoKey =>
    \A c \in DOMAIN calls :
      /\ IsRejected(c)
      /\ calls[c].outcome.error.code =
           IF calls[c].op = "search" /\ BlankQuery(calls[c].filters.q)
             THEN "VALIDATION"
             ELSE "CONFIG"
      /\ calls[c].sent = 0
      /\ calls[c].req = NoReq

\* a search with a real query text was rejected for the missing key
C5_Witness ==
  \E c \in DOMAIN calls :
    /\ DirectNoKey
    /\ calls[c].op = "search"
    /\ ~BlankQuery(calls[c].filters.q)
    /\ IsRejected(c)
    /\ calls[c].outcome.error.code = "CONFIG"

\* C6: for an integer page size n the outgoing request carries
\* pageSize = min(max(n, 1), 100).
C6_PageSizeIsClamped ==
  \A c \in DOMAIN calls :
    (calls[c].sent = 1 /\ calls[c].filters.pageSize.t = "number")
    => calls[c].req.query.pageSize =
         Digits(Min(Max(calls[c].filters.pageSize.v, 1), 100))

\* the body of call c has been read and makes doFetch throw: a status
\* outside 200..299, or a payload whose status is "error"
ErrorResponse(c) ==
  /\ calls[c].data # Undef
  /\ \/ calls[c].status < 200
     \/ calls[c].status > 299
     \/ /\ calls[c].data.t = "payload"
        /\ calls[c].data.status = Str(<<"error">>)

HasText(d, f) == d.t = "payload" /\ d[f].t = "string" /\ d[f].v # <<>>

ExpectedMessage(st, d) ==
  CASE st = 429 -> RateLimitMsg
    [] st >= 500 -> UnavailableMsg
    [] st \in {401, 403} -> UnauthorizedMsg
    [] OTHER -> IF HasText(d, "message") THEN d.message.v
                ELSE IF HasText(d, "error") THEN d.error.v
                ELSE GenericMsg

\* C7: the message of the error for a non-success status or an error
\* payload follows the precedence 429, >= 500, 401/403, payload message,
\* payload error, generic fallback; the error carries the HTTP status and
\* the raw payload.
C7_ErrorMessagePrecedence ==
  \A c \in DOMAIN calls :
    ErrorResponse(c)
    => /\ IsRejected(c)
       /\ calls[c].outcome.error.message =
            ExpectedMessage(calls[c].status, calls[c].data)
       /\ calls[c].outcome.error.status = calls[c].status
       /\ calls[c].outcome.error.details = calls[c].data

\* a 404 whose payload has both a message and an error field was mapped to
\* the payload's message
C7_Witness ==
  \E c \in DOMAIN calls :
    /\ ErrorResponse(c)
    /\ calls[c].status = 404
    /\ HasText(calls[c].data, "message")
    /\ HasText(calls[c].data, "error")
    /\ calls[c].outcome.error.message = calls[c].data.message.v

\* C8: the message of a rejected call never contains the configured key.
C8_NoKeyInErrorMessage ==
  \A c \in DOMAIN calls :
    (IsRejected(c) /\ env.key # <<>>)
    => ~Includes(calls[c].outcome.error.message, env.key[1])

\* the transport error of call c mentions a failed fetch, a network error,
\* a load failure or a cross-origin block
MentionsNetworkFailure(c) ==
  /\ calls[c].transport # NoErr
  /\ \E w \in {"failed to fetch", "networkerror", "load failed", "cors"} :
       Includes(Lower(calls[c].transport.message), w)

\* the call rejected with a new NETWORK error that names the mode and not
\* the key
RewrappedAsNetwork(c) ==
  /\ IsRejected(c)
  /\ calls[c].outcome.error.code = "NETWORK"
  /\ Includes(calls[c].outcome.error.message,
              IF DirectMode THEN "direct" ELSE "proxy")
  /\ env.key # <<>> => ~Includes(calls[c].outcome.error.message, env.key[1])
  /\ calls[c].outcome.error # calls[c].transport

\* C9 as stated: whenever the transport error's message mentions a failed
\* fetch (or a network error, a load failure, a cross-origin block) the
\* call rejects with a new NETWORK error naming the mode.
C9_NetworkMessageIsRewrapped ==
  \A c \in DOMAIN calls : MentionsNetworkFailure(c) => RewrappedAsNetwork(c)

\* C9 amended: the same, for a transport error that is a TypeError.
C9_NetworkTypeErrorIsRewrapped ==
  \A c \in DOMAIN calls :
    (MentionsNetworkFailure(c) /\ calls[c].transport.name = "TypeError")
    => RewrappedAsNetwork(c)

\* a TypeError "Failed to fetch" was rewrapped in proxy mode with a key set
C9_Witness ==
  \E c \in DOMAIN calls :
    /\ calls[c].transport = JsError("TypeError", <<"Failed to fetch">>)
    /\ ~DirectMode
    /\ env.key # <<>>
    /\ calls[c].outcome.error.code = "NETWORK"

\* C10: a response with a success status whose payload is no error
\* resolves, with articles a sequence: empty when the payload omits
\* articles, has a non-sequence articles or is absent (a body that is no
\* JSON), and with totalResults 0 for the absent payload.
C10_SuccessAlwaysResolves ==
  \A c \in DOMAIN calls :
    (calls[c].data # Undef /\ ~ErrorResponse(c))
    => /\ IsResolved(c)
       /\ LET d == calls[c].data
              r == calls[c].outcome.value
          IN  /\ r.articles \in Seq({"a1", "a2"})
              /\ (d.t # "payload" \/ d.articles.t # "array") => r.articles = <<>>
              /\ d = Null => r.totalResults = Num(0)

\* C11: every request issued in direct mode carries the header X-Api-Key
\* with the configured, non-empty key, and no request issued in proxy mode
\* carries a header, even when a key is set in the environment.
C11_KeyHeaderOnlyInDirectMode ==
  \A c \in DOMAIN calls :
    calls[c].req.t = "request"
    => IF DirectMode
         THEN /\ env.key # <<>>
              /\ calls[c].req.headers = {<<"X-Api-Key", Str(env.key)>>}
         ELSE calls[c].req.headers = {}

\* a request went out in proxy mode while a key was set in the environment
C11_Witness ==
  \E c \in DOMAIN calls :
    /\ ~DirectMode
    /\ env.key # <<>>
    /\ calls[c].sent = 1
    /\ calls[c].req.headers = {}

\* C12: getTopHeadlines requests {base}/top-headlines; searchEverything
\* requests {base}/search when the base does not contain the upstream host
\* name and {base}/everything when it does (the default base included);
\* {base} is the configured base without trailing slashes.
C12_PathByOperationAndMode ==
  \A c \in DOMAIN calls :
    calls[c].req.t = "request"
    => /\ calls[c].req.path =
            IF calls[c].op = "top-headlines" THEN "top-headlines"
            ELSE IF DirectMode THEN "everything" ELSE "search"
       /\ calls[c].req.base =
            stripTrailingSlashes(IF env.base # <<>> THEN env.base
                                                    ELSE DEFAULT_BASE)

\* a search went out to /everything under the default base
C12_Witness ==
  \E c \in DOMAIN calls :
    /\ env.base = <<>>
    /\ calls[c].op = "search"
    /\ calls[c].sent = 1
    /\ calls[c].req.path = "everything"

\* C13: the sortBy of every outgoing search request is one of relevancy,
\* popularity, publishedAt: a caller value in the allow-list is sent
\* unchanged and any other value, an absent one included, is sent as
\* publishedAt; a search is only refused for a blank query or for the
\* configuration, never for its sortBy.
C13_SortByIsAllowListed ==
  \A c \in DOMAIN calls :
    calls[c].op = "search"
    => LET given == calls[c].filters.sortBy
           listed == /\ given.t = "string"
                     /\ given.v \in {<<x>> : x \in {"relevancy", "popularity",
                                                     "publishedAt"}}
       IN  IF calls[c].req.t = "request"
             THEN /\ "sortBy" \in DOMAIN calls[c].req.query
                  /\ calls[c].req.query.sortBy =
                       IF listed THEN given.v ELSE <<"publishedAt">>
             ELSE /\ IsRejected(c)
                  /\ calls[c].outcome.error.code \in {"VALIDATION", "CONFIG"}
                  /\ calls[c].outcome.error.code = "VALIDATION"
                       => BlankQuery(calls[c].filters.q)

\* a search with the sortBy "bogus" went out with sortBy=publishedAt
C13_Witness ==
  \E c \in DOMAIN calls :
    /\ calls[c].op = "search"
    /\ calls[c].filters.sortBy = Str(<<"bogus">>)
    /\ calls[c].sent = 1
    /\ calls[c].req.query.sortBy = <<"publishedAt">>

\* C14: a call issues at most one HTTP request, whatever its outcome, and
\* none when it fails in validation or in the configuration checks.
C14_AtMostOneRequestPerCall ==
  \A c \in DOMAIN calls :
    /\ calls[c].sent \in {0, 1}
    /\ (IsRejected(c) /\ calls[c].outcome.error.code \in {"VALIDATION", "CONFIG"})
       => (calls[c].sent = 0 /\ calls[c].req = NoReq)

\* a call whose request timed out has settled, having issued one request
C14_Witness ==
  \E c \in DOMAIN calls :
    /\ calls[c].timer = "fired"
    /\ Settled(c)
    /\ calls[c].transport = AbortError
    /\ calls[c].sent = 1

\* C15: a call that failed because the timer fired or the caller aborted
\* the signal (fetch rejected with the abort) rejects with code NETWORK.
C15_TimeoutAndAbortRejectWithNetwork ==
  \A c \in DOMAIN calls :
    calls[c].transport = AbortError
    => /\ IsRejected(c)
       /\ calls[c].outcome.error.code = "NETWORK"

\* call c was made with a signal already aborted and passed validation
\* and the configuration checks
AbortedBeforeCall(c) ==
  calls[c].abortPhase = "before" /\ calls[c].req.t = "request"

\* C16: a call made with a signal that is already aborted, and that passes
\* validation and the configuration checks, puts no request on the
\* network and never gets a response; it rejects, and once it has settled
\* its timer is no longer pending.
C16_AbortedBeforeCallIsNeverSent ==
  /\ [](\A c \in DOMAIN calls :
          AbortedBeforeCall(c)
          => /\ calls[c].sent = 0
             /\ calls[c].pc \in {"fetch", "settled"}
             /\ Settled(c) => (IsRejected(c) /\ calls[c].timer # "pending"))
  /\ (\E c \in DOMAIN calls : AbortedBeforeCall(c))
       ~> (\E c \in DOMAIN calls :
             /\ AbortedBeforeCall(c)
             /\ IsRejected(c)
             /\ calls[c].timer # "pending")

\* such a call has rejected with the abort and its timer was cleared
C16_Witness ==
  \E c \in DOMAIN calls :
    /\ AbortedBeforeCall(c)
    /\ IsRejected(c)
    /\ calls[c].outcome.error.name = "AbortError"
    /\ calls[c].timer = "cleared"
    /\ calls[c].sent = 0

\* the calls the mounted view of owner o has made
ViewCalls(o) ==
  {c \in DOMAIN calls : calls[c].owner = o /\ calls[c].attached}

\* the most recent of them
Latest(o) == CHOOSE c \in ViewCalls(o) : \A d \in ViewCalls(o) : d <= c

\* every call of the view has settled and its handlers have run
AllDone(o) == \A c \in ViewCalls(o) : calls[c].pc = "done"

\* C17: in TopHeadlinesView, once every request has settled and the
\* request for the most recent filter selection resolved, error is empty,
\* loading is false and articles are that response's articles.
C17_LatestHeadlinesAreShown ==
  ( /\ top.mounted
    /\ ViewCalls("top") # {}
    /\ AllDone("top")
    /\ IsResolved(Latest("top")) )
  => /\ top.error = <<>>
     /\ ~top.loading
     /\ top.articles = calls[Latest("top")].outcome.value.articles

\* what SearchView shows for the settled call c alone
SearchShown(c) ==
  IF IsResolved(c)
    THEN [articles |-> calls[c].outcome.value.articles,
          error |-> IF calls[c].outcome.value.articles = <<>>
                      THEN NoResultsMsg ELSE <<>>]
    ELSE [articles |-> <<>>,
          error |-> Enriched(calls[c].outcome.error, <<"Failed to search news.">>)]

\* C18: in SearchView, once all the searches that went out have settled,
\* the articles and the error shown are those of the most recently
\* submitted search, whatever the order of the responses.
C18_LatestSearchIsShown ==
  ( /\ search.mounted
    /\ ViewCalls("search") # {}
    /\ AllDone("search")
    /\ \A c \in ViewCalls("search") : calls[c].sent = 1 )
  => /\ search.articles = SearchShown(Latest("search")).articles
     /\ search.error = SearchShown(Latest("search")).error

\* C19: in both views loading is true whenever the request started by the
\* most recent filter change or submission has not settled.
C19_LoadingWhileLatestInFlight ==
  /\ ( /\ top.mounted
       /\ ViewCalls("top") # {}
       /\ ~Settled(Latest("top")) )
     => top.loading
  /\ ( /\ search.mounted
       /\ ViewCalls("search") # {}
       /\ ~Settled(Latest("search")) )
     => search.loading

====
